---- MODULE Spec2Model ----
(***************************************************************************)
(* Model of src/lambda/chat_handler.py: the request router, the chat and   *)
(* health handlers, the lazily initialised Bedrock session / model / agent *)
(* singletons and the response extraction of _chat_with_claude.            *)
(*                                                                         *)
(* Python strings that the code builds by formatting are modelled as       *)
(* sequences of non-empty chunks (Str, \o), so that "is empty", "starts    *)
(* with" and "contains" are checkable.  Python values whose type decides   *)
(* the control flow carry their type name.                                 *)
(***************************************************************************)
EXTENDS Integers, Sequences, FiniteSets, TLC

(***************************************************************************)
(* Bounds of the model.                                                    *)
(***************************************************************************)
MaxRequests == 3
NThreads == 2
MaxToolCalls == 1
MaxResults == 1
Threads == 1..NThreads

(***************************************************************************)
(* Module configuration, chat_handler.py:19-22.                            *)
(***************************************************************************)
REGION_NAME == "us-east-1"
MODEL_ID == "anthropic.claude-3-sonnet-20240229-v1:0"
KnowledgeBaseIds == {"", "KB1"}

(***************************************************************************)
(* Python strings.                                                         *)
(***************************************************************************)
Str(s) == IF s = "" THEN <<>> ELSE <<s>>

Contains(text, s) == s = "" \/ \E i \in 1..Len(text) : text[i] = s

StartsWith(text, s) == s = "" \/ (Len(text) > 0 /\ text[1] = s)

(***************************************************************************)
(* Exceptions: class and str(e).                                           *)
(***************************************************************************)
NoExc == [cls |-> "", desc |-> <<>>]

Exc(c, d) == [cls |-> c, desc |-> d]

\* str(e) of the AttributeError raised by v.get(...) on a value that is
\* not a mapping.
NoAttrGet(tname) ==
    Exc("AttributeError", <<"'", tname, "' object has no attribute 'get'">>)

(***************************************************************************)
(* Python values met in a request body or an agent result.  t is the type  *)
(* name, truthy the result of bool(v), s the text of str(v).               *)
(***************************************************************************)
PyVal(t, truthy, s) == [t |-> t, truthy |-> truthy, s |-> s]

PyNone == PyVal("NoneType", FALSE, "None")

PyStr(s) == PyVal("str", s # "", s)

\* A decoded JSON document: its Python type and, for a dict, the two keys
\* the handler reads.
Doc(t, hasMessage, message, hasUser, user_id) ==
    [t |-> t, hasMessage |-> hasMessage, message |-> message,
     hasUser |-> hasUser, user_id |-> user_id]

Scalar(t) == Doc(t, FALSE, PyNone, FALSE, "")

Obj(hasMessage, message, hasUser, user_id) ==
    Doc("dict", hasMessage, message, hasUser, user_id)

(***************************************************************************)
(* json.loads on the request texts of the model: the decoded document, or  *)
(* JSONDecodeError.  Python's decoder accepts the literal NaN, which is    *)
(* not JSON (RFC 8259), and decodes it to a float.                         *)
(***************************************************************************)
BodyTexts ==
    {"", "{bad", "NaN", "null", "5", "[1]", "\"hi\"", "{}",
     "{\"message\":\"\"}", "{\"user_id\":\"u1\"}", "{\"message\":null}",
     "{\"message\":\"hi\"}", "{\"message\":\"hi\",\"user_id\":\"u1\"}",
     "{\"message\":5}", "{\"message\":[\"a\"]}", "{\"message\":{\"a\":1}}"}

JSONDecodeError == Exc("JSONDecodeError", <<"Expecting value">>)

json_loads(s) ==
    CASE s = ""      -> [exc |-> JSONDecodeError, val |-> Scalar("NoneType")]
      [] s = "{bad"  -> [exc |-> JSONDecodeError, val |-> Scalar("NoneType")]
      [] s = "NaN"   -> [exc |-> NoExc, val |-> Scalar("float")]
      [] s = "null"  -> [exc |-> NoExc, val |-> Scalar("NoneType")]
      [] s = "5"     -> [exc |-> NoExc, val |-> Scalar("int")]
      [] s = "[1]"   -> [exc |-> NoExc, val |-> Scalar("list")]
      [] s = "\"hi\"" -> [exc |-> NoExc, val |-> Scalar("str")]
      [] s = "{}"    -> [exc |-> NoExc, val |-> Obj(FALSE, PyNone, FALSE, "")]
      [] s = "{\"message\":\"\"}" ->
            [exc |-> NoExc, val |-> Obj(TRUE, PyStr(""), FALSE, "")]
      [] s = "{\"user_id\":\"u1\"}" ->
            [exc |-> NoExc, val |-> Obj(FALSE, PyNone, TRUE, "u1")]
      [] s = "{\"message\":null}" ->
            [exc |-> NoExc, val |-> Obj(TRUE, PyNone, FALSE, "")]
      [] s = "{\"message\":\"hi\"}" ->
            [exc |-> NoExc, val |-> Obj(TRUE, PyStr("hi"), FALSE, "")]
      [] s = "{\"message\":\"hi\",\"user_id\":\"u1\"}" ->
            [exc |-> NoExc, val |-> Obj(TRUE, PyStr("hi"), TRUE, "u1")]
      [] s = "{\"message\":5}" ->
            [exc |-> NoExc, val |-> Obj(TRUE, PyVal("int", TRUE, "5"), FALSE, "")]
      [] s = "{\"message\":[\"a\"]}" ->
            [exc |-> NoExc, val |-> Obj(TRUE, PyVal("list", TRUE, "['a']"), FALSE, "")]
      [] s = "{\"message\":{\"a\":1}}" ->
            [exc |-> NoExc, val |-> Obj(TRUE, PyVal("dict", TRUE, "{'a': 1}"), FALSE, "")]

(***************************************************************************)
(* json.dumps: the serialised text of a mapping, kept as the wrapped       *)
(* mapping so that the fields of a response body can be read back.         *)
(***************************************************************************)
json_dumps(m) == [json |-> m]

(***************************************************************************)
(* The event of an invocation.  body.t is the Python type of event['body'] *)
(* ("str": s is the text; "dict": doc is the mapping, already decoded).    *)
(***************************************************************************)
Body(t, s, doc) == [t |-> t, s |-> s, doc |-> doc]

NoBody == Body("NoneType", "", Scalar("NoneType"))

Event(isDict, hasMethod, m, hasPath, p, hasBody, b) ==
    [isDict |-> isDict, hasMethod |-> hasMethod, httpMethod |-> m,
     hasPath |-> hasPath, path |-> p, hasBody |-> hasBody, body |-> b]

NoEvent == Event(FALSE, FALSE, "", FALSE, "", FALSE, NoBody)

Req(m, p) == Event(TRUE, TRUE, m, TRUE, p, FALSE, NoBody)

Chat(b) == Event(TRUE, TRUE, "POST", TRUE, "/chat", TRUE, b)

\* The execution context: None, or an object with the time left.
Context(isNone, ms) == [isNone |-> isNone, remaining |-> ms]

Contexts == {Context(TRUE, 0), Context(FALSE, 1500)}

(***************************************************************************)
(* State.  The four module globals of chat_handler.py:43-46, the two       *)
(* knowledge-base identifiers read from the environment at import, and     *)
(* the invocations in progress.  A handle is the object a constructor      *)
(* returned: id numbers the constructions of its kind, src is the id of    *)
(* the handle it was built from.                                           *)
(***************************************************************************)
VARIABLES _boto_session, _bedrock_model, _agent, _bedrock_agent_client,
          KNOWLEDGE_BASE_ID, KNOWLEDGE_BASE_DATA_SOURCE_ID,
          th, nReq, built

vars == <<_boto_session, _bedrock_model, _agent, _bedrock_agent_client,
          KNOWLEDGE_BASE_ID, KNOWLEDGE_BASE_DATA_SOURCE_ID, th, nReq, built>>

None == [id |-> 0, src |-> 0]

Handle(i, from) == [id |-> i, src |-> from]

(***************************************************************************)
(* Response envelopes.  Every return site of the module writes its own     *)
(* header mapping.                                                         *)
(***************************************************************************)
Timestamp(context) ==
    IF ~context.isNone THEN [isNone |-> FALSE, ms |-> context.remaining]
    ELSE [isNone |-> TRUE, ms |-> 0]

kb_configured == KNOWLEDGE_BASE_ID # "" /\ KNOWLEDGE_BASE_DATA_SOURCE_ID # ""

NotFound(path, http_method) ==
    [statusCode |-> 404,
     headers |-> ("Content-Type" :> "application/json")
              @@ ("Access-Control-Allow-Origin" :> "*")
              @@ ("Access-Control-Allow-Headers" :> "Content-Type")
              @@ ("Access-Control-Allow-Methods" :> "POST, GET, OPTIONS"),
     body |-> json_dumps(
         [error |-> Str("Endpoint not found"),
          message |-> Str("Path ") \o Str(path) \o Str(" with method ")
                      \o Str(http_method) \o Str(" is not supported")])]

InternalError(e) ==
    [statusCode |-> 500,
     headers |-> ("Content-Type" :> "application/json")
              @@ ("Access-Control-Allow-Origin" :> "*")
              @@ ("Access-Control-Allow-Headers" :> "Content-Type")
              @@ ("Access-Control-Allow-Methods" :> "POST, GET, OPTIONS"),
     body |-> json_dumps(
         [error |-> Str("Internal server error"), message |-> e.desc])]

health_check(context) ==
    [statusCode |-> 200,
     headers |-> ("Content-Type" :> "application/json")
              @@ ("Access-Control-Allow-Origin" :> "*")
              @@ ("Access-Control-Allow-Headers" :> "Content-Type")
              @@ ("Access-Control-Allow-Methods" :> "POST, GET, OPTIONS"),
     body |-> json_dumps(
         [status |-> Str("healthy"),
          message |-> Str("Chat API is running with Claude integration via Strands and Harry Potter Knowledge Base"),
          model |-> MODEL_ID,
          region |-> REGION_NAME,
          framework |-> "strands-agents",
          knowledge_base_configured |-> kb_configured,
          timestamp |-> Timestamp(context)])]

MessageRequired ==
    [statusCode |-> 400,
     headers |-> ("Content-Type" :> "application/json")
              @@ ("Access-Control-Allow-Origin" :> "*")
              @@ ("Access-Control-Allow-Headers" :> "Content-Type")
              @@ ("Access-Control-Allow-Methods" :> "POST, GET, OPTIONS"),
     body |-> json_dumps(
         [error |-> Str("Bad request"),
          message |-> Str("Message field is required")])]

\* InvalidJson with the Access-Control-Allow-Methods header left out.
InvalidJson_three_headers ==
    [statusCode |-> 400,
     headers |-> ("Content-Type" :> "application/json")
              @@ ("Access-Control-Allow-Origin" :> "*")
              @@ ("Access-Control-Allow-Headers" :> "Content-Type"),
     body |-> json_dumps(
         [error |-> Str("Bad request"),
          message |-> Str("Invalid JSON in request body")])]

InvalidJson ==
    [statusCode |-> 400,
     headers |-> ("Content-Type" :> "application/json")
              @@ ("Access-Control-Allow-Origin" :> "*")
              @@ ("Access-Control-Allow-Headers" :> "Content-Type")
              @@ ("Access-Control-Allow-Methods" :> "POST, GET, OPTIONS"),
     body |-> json_dumps(
         [error |-> Str("Bad request"),
          message |-> Str("Invalid JSON in request body")])]

ChatOk(ai_response, user_id, context) ==
    [statusCode |-> 200,
     headers |-> ("Content-Type" :> "application/json")
              @@ ("Access-Control-Allow-Origin" :> "*")
              @@ ("Access-Control-Allow-Headers" :> "Content-Type")
              @@ ("Access-Control-Allow-Methods" :> "POST, GET, OPTIONS"),
     body |-> json_dumps(
         [response |-> ai_response,
          user_id |-> user_id,
          model |-> MODEL_ID,
          framework |-> "strands-agents",
          knowledge_base_enabled |-> kb_configured,
          timestamp |-> Timestamp(context)])]

NoEnvelope == [statusCode |-> 0, headers |-> <<>>, body |-> json_dumps(<<>>)]

(***************************************************************************)
(* handle_chat up to the call of _chat_with_claude (lines 250-275).  The   *)
(* outcome is a returned envelope, a raised exception, or the message and  *)
(* user id to converse with.                                               *)
(***************************************************************************)
Outcome(kind, env, exc, message, user_id) ==
    [kind |-> kind, env |-> env, exc |-> exc,
     message |-> message, user_id |-> user_id]

Return(env) == Outcome("return", env, NoExc, PyNone, "")

Raise(exc) == Outcome("raise", NoEnvelope, exc, PyNone, "")

\* event_body with the default of another type: event.get('body').
event_body_none(event) ==
    IF event.hasBody THEN event.body ELSE NoBody

\* event.get('body', '{}')
event_body(event) ==
    IF event.hasBody THEN event.body ELSE Body("str", "{}", Scalar("NoneType"))

\* lines 253-254: only a str body is decoded.
decode_body(body) ==
    IF body.t = "str" THEN json_loads(body.s)
    ELSE IF body.t = "dict" THEN [exc |-> NoExc, val |-> body.doc]
    ELSE [exc |-> NoExc, val |-> Scalar(body.t)]

\* message[:100] (line 275) on a value that cannot be sliced.
SliceError(t) ==
    IF t = "dict" THEN Exc("TypeError", <<"unhashable type: 'slice'">>)
    ELSE Exc("TypeError", <<"'", t, "' object is not subscriptable">>)

Sliceable(t) == t \in {"str", "list"}

\* lines 252-275, the body of the try block.
chat_try(event) ==
    LET dec == decode_body(event_body(event))
        doc == dec.val
        message == IF doc.hasMessage THEN doc.message ELSE PyStr("")
        user_id == IF doc.hasUser THEN doc.user_id ELSE "anonymous"
    IN  IF dec.exc # NoExc THEN Raise(dec.exc)
        ELSE IF doc.t # "dict" THEN Raise(NoAttrGet(doc.t))
        ELSE IF ~message.truthy THEN Return(MessageRequired)
        ELSE IF ~Sliceable(message.t) THEN Raise(SliceError(message.t))
        ELSE Outcome("call", NoEnvelope, NoExc, message, user_id)

\* lines 298-311: the only except clause of handle_chat.
handle_chat(event) ==
    LET o == chat_try(event)
    IN  IF o.kind = "raise" /\ o.exc.cls = "JSONDecodeError"
        THEN Return(InvalidJson)
        ELSE o

(***************************************************************************)
(* lambda_handler, lines 180-221: routing inside the try block, and the    *)
(* except clause that turns every exception into the 500 envelope.         *)
(***************************************************************************)
\* route that dispatches on the path alone.
route_by_path(event, context) ==
    LET http_method == IF event.hasMethod THEN event.httpMethod ELSE ""
        path == IF event.hasPath THEN event.path ELSE ""
    IN  IF ~event.isDict THEN Raise(NoAttrGet("NoneType"))
        ELSE IF path = "/health" THEN Return(health_check(context))
        ELSE IF path = "/chat" THEN handle_chat(event)
        ELSE Return(NotFound(path, http_method))

route(event, context) ==
    LET http_method == IF event.hasMethod THEN event.httpMethod ELSE ""
        path == IF event.hasPath THEN event.path ELSE ""
    IN  IF ~event.isDict THEN Raise(NoAttrGet("NoneType"))
        ELSE IF path = "/health" /\ http_method = "GET"
             THEN Return(health_check(context))
        ELSE IF path = "/chat" /\ http_method = "POST"
             THEN handle_chat(event)
        ELSE Return(NotFound(path, http_method))

\* catch_all with an except clause that names AttributeError only.
catch_attribute_error(o) ==
    IF o.kind = "raise" /\ o.exc.cls = "AttributeError"
    THEN Return(InternalError(o.exc)) ELSE o

catch_all(o) ==
    IF o.kind = "raise" THEN Return(InternalError(o.exc)) ELSE o

(***************************************************************************)
(* The result of agent(message): whether it has a message attribute, the   *)
(* message, its content, the first element of a content list, and          *)
(* str(result).  The shape is owned by the agent library, so every shape   *)
(* the extraction distinguishes is an input.                               *)
(***************************************************************************)
Elem(t, hasText, text, hasType, type, s, items) ==
    [t |-> t, hasText |-> hasText, text |-> text, hasType |-> hasType,
     type |-> type, s |-> s, items |-> items]

NoElem == Elem("NoneType", FALSE, PyNone, FALSE, "", "", {})

DictElem(hasText, text, hasType, type) ==
    Elem("dict", hasText, text, hasType, type, "", {})

StrElem(s) == Elem("str", FALSE, PyNone, FALSE, "", s, {})

ListElem(items) == Elem("list", FALSE, PyNone, FALSE, "", "", items)

Result(hasattr, m, hasContent, c, cLen, e, repr) ==
    [hasattr |-> hasattr, m |-> m, hasContent |-> hasContent, c |-> c,
     cLen |-> cLen, e |-> e, repr |-> repr]

NoResult == Result(FALSE, PyNone, FALSE, PyNone, 0, NoElem, "")

PyDict(truthy) == PyVal("dict", truthy, "")

PyList(truthy) == PyVal("list", truthy, "")

\* result.message = {'content': [e]}
ContentList(e) ==
    Result(TRUE, PyDict(TRUE), TRUE, PyList(TRUE), 1, e, "<AgentResult>")

\* result.message = {'content': c} for a content that is not a list
ContentOf(c) ==
    Result(TRUE, PyDict(TRUE), TRUE, c, 0, NoElem, "<AgentResult>")

\* result.message = m for a message that is not a mapping with content
MessageOf(m) ==
    Result(TRUE, m, FALSE, PyNone, 0, NoElem, "<AgentResult>")

Results ==
    { ContentList(DictElem(TRUE, PyStr("answer"), FALSE, "")),
      ContentList(DictElem(TRUE, PyStr("answer"), TRUE, "text")),
      ContentList(DictElem(TRUE, PyStr(""), FALSE, "")),
      ContentList(DictElem(TRUE, PyVal("int", TRUE, "5"), FALSE, "")),
      ContentList(DictElem(FALSE, PyNone, TRUE, "text")),
      ContentList(DictElem(FALSE, PyNone, TRUE, "toolUse")),
      ContentList(DictElem(FALSE, PyNone, FALSE, "")),
      ContentList(StrElem("some text")),
      ContentList(StrElem("typed")),
      ContentList(StrElem("plain")),
      ContentList(Elem("int", FALSE, PyNone, FALSE, "", "", {})),
      ContentList(Elem("NoneType", FALSE, PyNone, FALSE, "", "", {})),
      ContentList(ListElem({"text"})),
      ContentList(ListElem({})),
      Result(TRUE, PyDict(TRUE), TRUE, PyList(FALSE), 0, NoElem, "<AgentResult>"),
      ContentOf(PyStr("content text")),
      ContentOf(PyStr("")),
      ContentOf(PyNone),
      MessageOf(PyDict(TRUE)),
      MessageOf(PyDict(FALSE)),
      MessageOf(PyStr("message text")),
      MessageOf(PyStr("")),
      MessageOf(PyNone),
      MessageOf(PyList(TRUE)),
      Result(FALSE, PyNone, FALSE, PyNone, 0, NoElem, "<AgentResult>"),
      Result(FALSE, PyNone, FALSE, PyNone, 0, NoElem, "") }

\* 'sub in s' for the strings of the model.
Substring(sub, s) ==
    \/ sub = s
    \/ <<sub, s>> \in {<<"text", "some text">>, <<"type", "typed">>}

\* key in content[0]
elem_in(key, e) ==
    CASE e.t = "dict" ->
            [exc |-> NoExc,
             val |-> IF key = "text" THEN e.hasText
                     ELSE IF key = "type" THEN e.hasType ELSE FALSE]
      [] e.t = "str"  -> [exc |-> NoExc, val |-> Substring(key, e.s)]
      [] e.t = "list" -> [exc |-> NoExc, val |-> key \in e.items]
      [] OTHER ->
            [exc |-> Exc("TypeError",
                         <<"argument of type '", e.t, "' is not iterable">>),
             val |-> FALSE]

\* str(e) of the TypeError raised by content[0][key] on a str or a list.
IndexError(t) ==
    IF t = "str"
    THEN Exc("TypeError", <<"string indices must be integers, not 'str'">>)
    ELSE Exc("TypeError", <<"list indices must be integers or slices, not str">>)

Text(s) == [exc |-> NoExc, text |-> Str(s)]

Fails(exc) == [exc |-> exc, text |-> <<>>]

\* lines 153-169: the text extracted from a result, or the exception the
\* extraction raises.
extract(result) ==
    LET e == result.e
        hasText == elem_in("text", e)
        hasType == elem_in("type", e)
        fallback == Text(result.repr)
    IN  IF result.hasattr /\ result.m.truthy
        THEN IF result.m.t = "dict" /\ result.hasContent
             THEN IF result.c.t = "list" /\ result.cLen > 0
                  THEN IF hasText.exc # NoExc THEN Fails(hasText.exc)
                       ELSE IF hasText.val
                            THEN IF e.t = "dict" THEN Text(e.text.s)
                                 ELSE Fails(IndexError(e.t))
                       ELSE IF hasType.exc # NoExc THEN Fails(hasType.exc)
                       ELSE IF hasType.val
                            THEN IF e.t # "dict" THEN Fails(IndexError(e.t))
                                 ELSE IF e.type = "text"
                                      THEN Text(IF e.hasText THEN e.text.s
                                                ELSE "")
                                      ELSE fallback
                       ELSE fallback
                  ELSE IF result.c.t = "str" THEN Text(result.c.s)
                  ELSE fallback
             ELSE IF result.m.t = "str" THEN Text(result.m.s)
             ELSE fallback
        ELSE fallback

\* line 174: the text returned when anything inside the try block raised.
apology(exc) ==
    Str("I apologize, but I encountered an error while processing your request: ")
    \o exc.desc \o Str(". Please try again.")

(***************************************************************************)
(* Inputs of the model.                                                    *)
(***************************************************************************)
Methods == {"GET", "POST", "OPTIONS"}

Paths == {"/health", "/chat", "/other"}

\* Events without a body key; the method or the path may be absent too.
RouteEvents ==
    { Event(TRUE, hm, IF hm THEN m ELSE "", hp, IF hp THEN p ELSE "",
            FALSE, NoBody) :
        hm \in BOOLEAN, hp \in BOOLEAN, m \in Methods, p \in Paths }

Bodies ==
    { Body("str", s, Scalar("NoneType")) : s \in BodyTexts }
    \cup { NoBody,
           Body("bytes", "{\"message\":\"hi\"}", Scalar("NoneType")),
           Body("dict", "", Obj(FALSE, PyNone, FALSE, "")),
           Body("dict", "", Obj(TRUE, PyStr(""), TRUE, "u1")),
           Body("dict", "", Obj(TRUE, PyStr("hi"), TRUE, "u2")) }

Events == {NoEvent} \cup RouteEvents \cup { Chat(b) : b \in Bodies }

\* The requests of the concurrent specification.
ConcEvents ==
    { Req("GET", "/health"),
      Chat(Body("str", "{\"message\":\"hi\"}", Scalar("NoneType"))) }

ConcContexts == {Context(FALSE, 1500)}

ConcResults == { ContentList(DictElem(TRUE, PyStr("answer"), FALSE, "")) }

\* Failures of the collaborators: boto3.Session, BedrockModel, Agent and
\* the agent call.
SessionFailure == Exc("ProfileNotFound", <<"The config profile could not be found">>)

ModelFailure == Exc("NoCredentialsError", <<"Unable to locate credentials">>)

AgentFailure == Exc("ValueError", <<"invalid tool specification">>)

CallFailure == Exc("ThrottlingException", <<"Too many requests">>)

(***************************************************************************)
(* An invocation of lambda_handler.  pc is its position; session, model,   *)
(* agent and client are the locals of the getters and ret the caller of    *)
(* _get_bedrock_session; query and tool are the argument and the return    *)
(* value of the latest search_knowledge_base; out is the sequence of       *)
(* envelopes it returned and escaped the exception it let out.  tools and  *)
(* retrieves count the tool invocations and the retrieve calls.  raised,   *)
(* failure, returned, result, made and calls record what happened inside   *)
(* it: the exception a handler raised, the exception _chat_with_claude     *)
(* caught, whether the agent call returned and its result, the handles the *)
(* invocation constructed and the number of its agent calls.               *)
(***************************************************************************)
Idle ==
    [pc |-> "idle", event |-> NoEvent, context |-> Context(TRUE, 0),
     message |-> PyNone, user_id |-> "",
     session |-> None, model |-> None, agent |-> None,
     client |-> None, ret |-> "", query |-> "", tool |-> <<>>,
     out |-> <<>>, escaped |-> NoExc, raised |-> NoExc, failure |-> NoExc,
     result |-> NoResult, returned |-> FALSE, made |-> {}, calls |-> 0,
     tools |-> 0, retrieves |-> 0]

Globals == <<_boto_session, _bedrock_model, _agent, _bedrock_agent_client>>

Env == <<KNOWLEDGE_BASE_ID, KNOWLEDGE_BASE_DATA_SOURCE_ID>>

Init ==
    /\ _boto_session = None
    /\ _bedrock_model = None
    /\ _agent = None
    /\ _bedrock_agent_client = None
    /\ KNOWLEDGE_BASE_ID \in KnowledgeBaseIds
    /\ KNOWLEDGE_BASE_DATA_SOURCE_ID \in KnowledgeBaseIds
    /\ th = [t \in Threads |-> Idle]
    /\ nReq = 0
    /\ built = [session |-> 0, model |-> 0, agent |-> 0, client |-> 0]

\* lines 176-221 and, for POST /chat, 246-275: the invocation either
\* returns its envelope or reaches the call of _chat_with_claude.
lambda_handler(t, event, context) ==
    LET r == route(event, context)
        o == catch_all(r)
        inv == [Idle EXCEPT !.event = event, !.context = context,
                            !.raised = r.exc]
    IN  /\ th[t].pc \in {"idle", "done"}
        /\ nReq < MaxRequests
        /\ nReq' = nReq + 1
        /\ th' = [th EXCEPT ![t] =
                IF o.kind = "call"
                THEN [inv EXCEPT !.pc = "get_agent", !.message = o.message,
                                 !.user_id = o.user_id]
                ELSE IF o.kind = "return"
                THEN [inv EXCEPT !.pc = "done", !.out = <<o.env>>]
                ELSE [inv EXCEPT !.pc = "done", !.escaped = o.exc]]
        /\ UNCHANGED <<Globals, Env, built>>

\* chat_with_claude with an except clause that drops the description.
chat_with_claude_generic(x) ==
    IF x.exc # NoExc
    THEN Str("I apologize, but I encountered an error while processing your request: ")
         \o Str(". Please try again.")
    ELSE x.text

\* lines 145 and 171-174: the try block of _chat_with_claude ends with a
\* text or with an exception, which the except clause turns into a text.
chat_with_claude(x) ==
    IF x.exc # NoExc THEN apology(x.exc) ELSE x.text

\* _chat_with_claude returns, handle_chat wraps the text in the 200
\* envelope (lines 278-296) and lambda_handler returns it (line 191).  The
\* argument and the return value of the tool end with the agent call.
finish(t, x, result, returned, n) ==
    th' = [th EXCEPT ![t] =
            [@ EXCEPT !.pc = "done",
                      !.out = Append(@, ChatOk(chat_with_claude(x),
                                               th[t].user_id,
                                               th[t].context)),
                      !.query = "", !.tool = <<>>,
                      !.failure = x.exc,
                      !.result = result,
                      !.returned = returned,
                      !.calls = @ + n]]

\* A constructor raised inside _get_agent (line 146).
caught(t, exc) == finish(t, Fails(exc), NoResult, FALSE, 0)

(***************************************************************************)
(* search_knowledge_base, lines 76-125: the texts it returns.              *)
(***************************************************************************)
NotConfigured ==
    Str("Knowledge Base not configured. Please set KNOWLEDGE_BASE_ID and KNOWLEDGE_BASE_DATA_SOURCE_ID environment variables.")

NoInformation ==
    Str("No specific information found in the Knowledge Base for your query. I can still help with general Harry Potter knowledge based on my training.")

\* line 125
ToolError(exc) ==
    Str("Error searching the Knowledge Base: ") \o exc.desc
    \o Str(". I can still help with general Harry Potter knowledge based on my training.")

\* One element of response['retrievalResults']: the text, source and title
\* found under its content, each of which may be missing.
RetrievalResult(hasText, text, hasSource, source, hasTitle, title) ==
    [hasText |-> hasText, text |-> text, hasSource |-> hasSource,
     source |-> source, hasTitle |-> hasTitle, title |-> title]

RetrievalResults ==
    { RetrievalResult(TRUE, "Harry is a wizard.", TRUE, "book1.pdf",
                      TRUE, "Philosopher's Stone"),
      RetrievalResult(FALSE, "", FALSE, "", FALSE, "") }

\* The responses of client.retrieve: without the retrievalResults key, or
\* with a list of at most MaxResults results.
Responses ==
    { [has |-> FALSE, results |-> <<>>] }
    \cup { [has |-> TRUE, results |-> r] :
             r \in UNION { [1..n -> RetrievalResults] : n \in 0..MaxResults } }

Digit(d) == <<"0", "1", "2", "3", "4", "5", "6", "7", "8", "9">>[d + 1]

RECURSIVE NumText(_)
\* str(n) as a sequence of digits.
NumText(n) ==
    IF n < 10 THEN <<Digit(n)>> ELSE NumText(n \div 10) \o <<Digit(n % 10)>>

\* lines 108-116
Block(r) ==
    Str("Source: ") \o Str(IF r.hasSource THEN r.source ELSE "Unknown source")
    \o Str("\nTitle: ") \o Str(IF r.hasTitle THEN r.title ELSE "No title")
    \o Str("\nContent: ") \o Str(IF r.hasText THEN r.text ELSE "")
    \o Str("\n")

RECURSIVE Join(_)
\* "\n---\n".join(results)
Join(blocks) ==
    IF Len(blocks) = 0 THEN <<>>
    ELSE IF Len(blocks) = 1 THEN blocks[1]
    ELSE blocks[1] \o Str("\n---\n") \o Join(Tail(blocks))

\* lines 105-121
format_results(response) ==
    LET found == IF response.has THEN response.results ELSE <<>>
        results == [i \in 1..Len(found) |-> Block(found[i])]
    IN  IF Len(results) > 0
        THEN Str("Found ") \o NumText(Len(results))
             \o Str(" relevant results for your query about Harry Potter:\n\n")
             \o Join(results)
        ELSE NoInformation

Queries == {"Who is Harry Potter?", "Expelliarmus"}

ClientFailure == Exc("UnknownServiceError", <<"Unknown service: 'bedrock-agent-runtime'">>)

RetrieveFailure == Exc("AccessDeniedException", <<"User is not authorized to perform: bedrock:Retrieve">>)

\* The tool returns text to the agent, which goes on with its call.
tool_return(t, text, n) ==
    th' = [th EXCEPT ![t] =
            [@ EXCEPT !.pc = "call", !.tool = text, !.retrieves = @ + n]]

\* lines 123-125: except Exception inside search_knowledge_base.
tool_caught(t, exc) == tool_return(t, ToolError(exc), 0)

\* get_agent without the test of the memoized handle.
get_agent_uncached(t) ==
    /\ th[t].pc = "get_agent"
    /\ th' = [th EXCEPT ![t] = [@ EXCEPT !.pc = "get_model"]]
    /\ UNCHANGED <<Globals, Env, nReq, built>>

\* lines 129-131 and 141: _get_agent reads the global.
get_agent(t) ==
    /\ th[t].pc = "get_agent"
    /\ th' = [th EXCEPT ![t] =
            IF _agent = None THEN [@ EXCEPT !.pc = "get_model"]
            ELSE [@ EXCEPT !.pc = "call", !.agent = _agent]]
    /\ UNCHANGED <<Globals, Env, nReq, built>>

\* lines 57-59 and 65: _get_bedrock_model reads the global.
get_model(t) ==
    /\ th[t].pc = "get_model"
    /\ th' = [th EXCEPT ![t] =
            IF _bedrock_model = None
            THEN [@ EXCEPT !.pc = "get_session", !.ret = "model"]
            ELSE [@ EXCEPT !.pc = "new_agent", !.model = _bedrock_model]]
    /\ UNCHANGED <<Globals, Env, nReq, built>>

\* lines 50-51: _get_bedrock_session reads the global.
get_session(t) ==
    /\ th[t].pc = "get_session"
    /\ th' = [th EXCEPT ![t] =
            IF _boto_session = None THEN [@ EXCEPT !.pc = "new_session"]
            ELSE [@ EXCEPT !.pc = "ret_session"]]
    /\ UNCHANGED <<Globals, Env, nReq, built>>

\* new_session that returns the session without memoizing it.
new_session_unstored(t) ==
    /\ th[t].pc = "new_session"
    /\ \/ /\ IF th[t].ret = "client" THEN tool_caught(t, SessionFailure)
             ELSE caught(t, SessionFailure)
          /\ UNCHANGED <<Globals, built>>
       \/ /\ built' = [built EXCEPT !.session = @ + 1]
          /\ th' = [th EXCEPT ![t] =
                  [@ EXCEPT !.pc = "ret_session",
                            !.made = @ \cup {"session"}]]
          /\ UNCHANGED Globals
    /\ UNCHANGED <<Env, nReq>>

\* line 52: boto3.Session(...) and the store.
new_session(t) ==
    /\ th[t].pc = "new_session"
    /\ \/ /\ IF th[t].ret = "client" THEN tool_caught(t, SessionFailure)
             ELSE caught(t, SessionFailure)
          /\ UNCHANGED <<Globals, built>>
       \/ /\ _boto_session' = Handle(built.session + 1, 0)
          /\ built' = [built EXCEPT !.session = @ + 1]
          /\ th' = [th EXCEPT ![t] =
                  [@ EXCEPT !.pc = "ret_session",
                            !.made = @ \cup {"session"}]]
          /\ UNCHANGED <<_bedrock_model, _agent, _bedrock_agent_client>>
    /\ UNCHANGED <<Env, nReq>>

\* line 53: return _boto_session.
ret_session(t) ==
    /\ th[t].pc = "ret_session"
    /\ th' = [th EXCEPT ![t] =
            [@ EXCEPT !.pc = IF th[t].ret = "client" THEN "new_client"
                             ELSE "new_model",
                      !.session = _boto_session]]
    /\ UNCHANGED <<Globals, Env, nReq, built>>

\* lines 60-64: BedrockModel(boto_session=session) and the store.
new_model(t) ==
    /\ th[t].pc = "new_model"
    /\ \/ /\ caught(t, ModelFailure)
          /\ UNCHANGED <<Globals, built>>
       \/ /\ _bedrock_model' = Handle(built.model + 1, th[t].session.id)
          /\ built' = [built EXCEPT !.model = @ + 1]
          /\ th' = [th EXCEPT ![t] =
                  [@ EXCEPT !.pc = "ret_model", !.made = @ \cup {"model"}]]
          /\ UNCHANGED <<_boto_session, _agent, _bedrock_agent_client>>
    /\ UNCHANGED <<Env, nReq>>

\* line 65: return _bedrock_model.
ret_model(t) ==
    /\ th[t].pc = "ret_model"
    /\ th' = [th EXCEPT ![t] =
            [@ EXCEPT !.pc = "new_agent", !.model = _bedrock_model]]
    /\ UNCHANGED <<Globals, Env, nReq, built>>

\* lines 134-140: Agent(model=model, ...) and the store.
new_agent(t) ==
    /\ th[t].pc = "new_agent"
    /\ \/ /\ caught(t, AgentFailure)
          /\ UNCHANGED <<Globals, built>>
       \/ /\ _agent' = Handle(built.agent + 1, th[t].model.id)
          /\ built' = [built EXCEPT !.agent = @ + 1]
          /\ th' = [th EXCEPT ![t] =
                  [@ EXCEPT !.pc = "ret_agent", !.made = @ \cup {"agent"}]]
          /\ UNCHANGED <<_boto_session, _bedrock_model, _bedrock_agent_client>>
    /\ UNCHANGED <<Env, nReq>>

\* line 141: return _agent.
ret_agent(t) ==
    /\ th[t].pc = "ret_agent"
    /\ th' = [th EXCEPT ![t] =
            [@ EXCEPT !.pc = "call", !.agent = _agent]]
    /\ UNCHANGED <<Globals, Env, nReq, built>>

\* search_knowledge_base that goes on unless both identifiers are empty.
search_knowledge_base_both_empty(t) ==
    /\ th[t].pc = "call"
    /\ th[t].tools < MaxToolCalls
    /\ \E query \in Queries :
         th' = [th EXCEPT ![t] =
            IF KNOWLEDGE_BASE_ID = "" /\ KNOWLEDGE_BASE_DATA_SOURCE_ID = ""
            THEN [@ EXCEPT !.tools = @ + 1, !.query = query,
                           !.tool = NotConfigured]
            ELSE [@ EXCEPT !.tools = @ + 1, !.query = query,
                           !.pc = "get_client"]]
    /\ UNCHANGED <<Globals, Env, nReq, built>>

\* lines 86-90: during its call the agent invokes the tool, which returns
\* at once when a knowledge-base identifier is empty.
search_knowledge_base(t) ==
    /\ th[t].pc = "call"
    /\ th[t].tools < MaxToolCalls
    /\ \E query \in Queries :
         th' = [th EXCEPT ![t] =
            IF KNOWLEDGE_BASE_ID = "" \/ KNOWLEDGE_BASE_DATA_SOURCE_ID = ""
            THEN [@ EXCEPT !.tools = @ + 1, !.query = query,
                           !.tool = NotConfigured]
            ELSE [@ EXCEPT !.tools = @ + 1, !.query = query,
                           !.pc = "get_client"]]
    /\ UNCHANGED <<Globals, Env, nReq, built>>

\* lines 69-71 and 73: _get_bedrock_agent_client reads the global.
get_client(t) ==
    /\ th[t].pc = "get_client"
    /\ th' = [th EXCEPT ![t] =
            IF _bedrock_agent_client = None
            THEN [@ EXCEPT !.pc = "get_session", !.ret = "client"]
            ELSE [@ EXCEPT !.pc = "retrieve",
                           !.client = _bedrock_agent_client]]
    /\ UNCHANGED <<Globals, Env, nReq, built>>

\* line 72: session.client('bedrock-agent-runtime') and the store.
new_client(t) ==
    /\ th[t].pc = "new_client"
    /\ \/ /\ tool_caught(t, ClientFailure)
          /\ UNCHANGED <<Globals, built>>
       \/ /\ _bedrock_agent_client' = Handle(built.client + 1, th[t].session.id)
          /\ built' = [built EXCEPT !.client = @ + 1]
          /\ th' = [th EXCEPT ![t] =
                  [@ EXCEPT !.pc = "ret_client", !.made = @ \cup {"client"}]]
          /\ UNCHANGED <<_boto_session, _bedrock_model, _agent>>
    /\ UNCHANGED <<Env, nReq>>

\* line 73: return _bedrock_agent_client.
ret_client(t) ==
    /\ th[t].pc = "ret_client"
    /\ th' = [th EXCEPT ![t] =
            [@ EXCEPT !.pc = "retrieve", !.client = _bedrock_agent_client]]
    /\ UNCHANGED <<Globals, Env, nReq, built>>

\* lines 93-125: client.retrieve raises, or returns a response that is
\* formatted.
retrieve(t) ==
    /\ th[t].pc = "retrieve"
    /\ \/ tool_return(t, ToolError(RetrieveFailure), 1)
       \/ \E response \in Responses :
            tool_return(t, format_results(response), 1)
    /\ UNCHANGED <<Globals, Env, nReq, built>>

\* call_agent that calls the agent again after its first failure.
call_agent_retry(t, results) ==
    /\ th[t].pc = "call"
    /\ \/ /\ th[t].calls = 0
          /\ th' = [th EXCEPT ![t] = [@ EXCEPT !.calls = @ + 1]]
       \/ finish(t, Fails(CallFailure), NoResult, FALSE, 1)
       \/ \E result \in results : finish(t, extract(result), result, TRUE, 1)
    /\ UNCHANGED <<Globals, Env, nReq, built>>

\* lines 150-169: agent(message) raises, or returns a result from which
\* the text is extracted.
call_agent(t, results) ==
    /\ th[t].pc = "call"
    /\ \/ finish(t, Fails(CallFailure), NoResult, FALSE, 1)
       \/ \E result \in results : finish(t, extract(result), result, TRUE, 1)
    /\ UNCHANGED <<Globals, Env, nReq, built>>

(***************************************************************************)
(* Specifications.  Spec is the deployment the module is written for: one  *)
(* invocation at a time in a process, any request, any agent result.       *)
(* SpecConc lets the invocations of one process overlap, with an agent     *)
(* that answers without using its tool.                                    *)
(***************************************************************************)
InFlight(t) == th[t].pc \notin {"idle", "done"}

Receive ==
    \E event \in Events, context \in Contexts :
        lambda_handler(1, event, context)

Initialise ==
    \/ get_agent(1) \/ get_model(1) \/ get_session(1)
    \/ new_session(1) \/ ret_session(1)
    \/ new_model(1) \/ ret_model(1)
    \/ new_agent(1) \/ ret_agent(1)

Search ==
    \/ search_knowledge_base(1) \/ get_client(1)
    \/ new_client(1) \/ ret_client(1) \/ retrieve(1)

Converse == call_agent(1, Results)

Next == Receive \/ Initialise \/ Search \/ Converse

Spec == Init /\ [][Next]_vars

ReceiveConc ==
    \E t \in Threads, event \in ConcEvents, context \in ConcContexts :
        lambda_handler(t, event, context)

InitialiseConc ==
    \E t \in Threads :
        \/ get_agent(t) \/ get_model(t) \/ get_session(t)
        \/ new_session(t) \/ ret_session(t)
        \/ new_model(t) \/ ret_model(t)
        \/ new_agent(t) \/ ret_agent(t)

ConverseConc == \E t \in Threads : call_agent(t, ConcResults)

NextConc == ReceiveConc \/ InitialiseConc \/ ConverseConc

SpecConc == Init /\ [][NextConc]_vars

(***************************************************************************)
(* Vocabulary of the properties.                                           *)
(***************************************************************************)
Done(t) == th[t].pc = "done"

Status(t) == th[t].out[1].statusCode

Json(t) == th[t].out[1].body.json

MethodOf(event) == IF event.hasMethod THEN event.httpMethod ELSE ""

PathOf(event) == IF event.hasPath THEN event.path ELSE ""

\* The request is a POST /chat.
IsChat(t) ==
    /\ th[t].event.isDict
    /\ MethodOf(th[t].event) = "POST"
    /\ PathOf(th[t].event) = "/chat"

\* The texts of the model that are JSON documents (RFC 8259).
IsJSON(s) == s \notin {"", "{bad", "NaN"}

\* The request body carries a JSON object: a text that is one, or a mapping.
HasObject(event) ==
    \/ event.body.t = "dict"
    \/ /\ event.body.t = "str"
       /\ IsJSON(event.body.s)
       /\ json_loads(event.body.s).val.t = "dict"

ObjectOf(event) ==
    IF event.body.t = "dict" THEN event.body.doc
    ELSE json_loads(event.body.s).val

\* A valid chat input: an object with a non-empty string message.
ValidInput(event) ==
    /\ event.hasBody
    /\ HasObject(event)
    /\ ObjectOf(event).hasMessage
    /\ ObjectOf(event).message.t = "str"
    /\ ObjectOf(event).message.s # ""

FixedHeaders ==
    ("Content-Type" :> "application/json")
    @@ ("Access-Control-Allow-Origin" :> "*")
    @@ ("Access-Control-Allow-Headers" :> "Content-Type")
    @@ ("Access-Control-Allow-Methods" :> "POST, GET, OPTIONS")

ApologyPrefix ==
    "I apologize, but I encountered an error while processing your request: "

(***************************************************************************)
(* C1.  lambda_handler returns exactly one envelope for every event and    *)
(* context and lets no exception escape; when a handler raised, the        *)
(* envelope is the 500 with error "Internal server error" and the failure  *)
(* description as message.                                                 *)
(***************************************************************************)
C1_OneEnvelopeNoEscape ==
    \A t \in Threads :
        /\ th[t].escaped = NoExc
        /\ Done(t) => Len(th[t].out) = 1
        /\ ~Done(t) => Len(th[t].out) = 0
        /\ (Done(t) /\ th[t].raised # NoExc) =>
              /\ Status(t) = 500
              /\ DOMAIN Json(t) = {"error", "message"}
              /\ Json(t).error = <<"Internal server error">>
              /\ Json(t).message = th[t].raised.desc

C1_Witness ==
    \E t \in Threads :
        /\ Done(t)
        /\ th[t].raised.cls = "TypeError"
        /\ Len(th[t].out) = 1
        /\ Status(t) = 500

(***************************************************************************)
(* C2.  Routing depends on (method, path) only: GET /health is answered by *)
(* the health handler, POST /chat by the chat handler, and every other     *)
(* pair, an absent method or path included, by the 404 "Endpoint not       *)
(* found" whose message contains the requested path and method.            *)
(***************************************************************************)
C2_Routing ==
    \A t \in Threads :
        (th[t].pc # "idle" /\ th[t].event.isDict) =>
            LET m == MethodOf(th[t].event)
                p == PathOf(th[t].event)
            IN  IF p = "/health" /\ m = "GET"
                THEN /\ Done(t)
                     /\ Status(t) = 200
                     /\ "status" \in DOMAIN Json(t)
                     /\ Json(t).status = <<"healthy">>
                ELSE IF p = "/chat" /\ m = "POST"
                THEN Done(t) =>
                        \/ Status(t) = 200 /\ "response" \in DOMAIN Json(t)
                        \/ Status(t) = 400 /\ Json(t).error = <<"Bad request">>
                        \/ Status(t) = 500
                ELSE /\ Done(t)
                     /\ Status(t) = 404
                     /\ Json(t).error = <<"Endpoint not found">>
                     /\ Contains(Json(t).message, p)
                     /\ Contains(Json(t).message, m)

C2_Witness ==
    \E t \in Threads :
        /\ Done(t)
        /\ th[t].event.isDict
        /\ PathOf(th[t].event) = "/health"
        /\ MethodOf(th[t].event) = "POST"
        /\ Status(t) = 404
        /\ Json(t).message =
             <<"Path ", "/health", " with method ", "POST", " is not supported">>

(***************************************************************************)
(* C3.  Whatever the body of a POST /chat, the answer is 200 for a valid   *)
(* input and 400 for a missing or invalid one, never 500.                  *)
(***************************************************************************)
C3_ChatIs200Or400 ==
    \A t \in Threads :
        (Done(t) /\ IsChat(t)) =>
            /\ Status(t) \in {200, 400}
            /\ ValidInput(th[t].event) => Status(t) = 200
            /\ (th[t].event.body.t # "bytes" /\ ~ValidInput(th[t].event))
                  => Status(t) = 400

(***************************************************************************)
(* C4.  A POST /chat whose message is empty or absent (no body key, an     *)
(* object without a message field, or a message equal to "") is answered   *)
(* 400 with error "Bad request" and message "Message field is required".   *)
(***************************************************************************)
MessageEmptyOrAbsent(event) ==
    \/ ~event.hasBody
    \/ /\ HasObject(event)
       /\ \/ ~ObjectOf(event).hasMessage
          \/ ObjectOf(event).message = PyStr("")

C5_InvalidJson ==
    \A t \in Threads :
        (/\ Done(t) /\ IsChat(t) /\ th[t].event.hasBody
         /\ th[t].event.body.t = "str" /\ ~IsJSON(th[t].event.body.s)) =>
            /\ Status(t) = 400
            /\ Json(t).error = <<"Bad request">>
            /\ Json(t).message = <<"Invalid JSON in request body">>

(***************************************************************************)
(* C6.  A valid chat input is answered 200 with a non-empty response text  *)
(* and its user_id echoed ("anonymous" when none was given), whatever the  *)
(* agent call returned or raised.                                          *)
(***************************************************************************)
C6_ValidInputAnswered ==
    \A t \in Threads :
        (Done(t) /\ IsChat(t) /\ ValidInput(th[t].event)) =>
            /\ Status(t) = 200
            /\ Len(Json(t).response) > 0
            /\ Json(t).user_id =
                 IF ObjectOf(th[t].event).hasUser
                 THEN ObjectOf(th[t].event).user_id ELSE "anonymous"

(***************************************************************************)
(* C7.  _chat_with_claude never raises: when a constructor or the agent    *)
(* call fails, it returns a text that starts with the apology prefix and   *)
(* contains the failure description, and the request is answered 200.      *)
(***************************************************************************)
C7_FailureBecomesApology ==
    \A t \in Threads :
        (Done(t) /\ th[t].failure # NoExc) =>
            /\ th[t].escaped = NoExc
            /\ Len(th[t].out) = 1
            /\ Status(t) = 200
            /\ StartsWith(Json(t).response, ApologyPrefix)
            /\ SubSeq(Json(t).response, 2, 1 + Len(th[t].failure.desc))
                 = th[t].failure.desc

C7_Witness ==
    \E t \in Threads :
        /\ Done(t)
        /\ th[t].failure = CallFailure
        /\ th[t].calls = 1
        /\ Status(t) = 200
        /\ Contains(Json(t).response, "Too many requests")

(***************************************************************************)
(* C8.  Sequential accepted chat requests construct the session, the model *)
(* and the agent once.                                                     *)
(***************************************************************************)
\* The request reached _chat_with_claude and was answered.
Accepted(t) == Done(t) /\ IsChat(t) /\ Status(t) = 200

\* C8 as stated: after any accepted chat request each of the three has
\* been constructed exactly once.
C8_ExactlyOnce ==
    \A t \in Threads :
        Accepted(t) =>
            /\ built.session = 1
            /\ built.model = 1
            /\ built.agent = 1

\* C8 as amended: each of the three is constructed at most once; a request
\* that obtained an agent leaves all three constructed exactly once, the
\* agent it used being the stored one, built from the stored model, built
\* from the stored session; and a request that obtained an agent it did
\* not construct constructed none of the three.
C8_AtMostOnce ==
    /\ built.session <= 1
    /\ built.model <= 1
    /\ built.agent <= 1
    /\ \A t \in Threads :
          (Accepted(t) /\ th[t].agent # None) =>
              /\ built.session = 1 /\ built.model = 1 /\ built.agent = 1
              /\ th[t].agent = _agent
              /\ _agent.src = _bedrock_model.id
              /\ _bedrock_model.src = _boto_session.id
              /\ "agent" \notin th[t].made =>
                    th[t].made \cap {"session", "model", "agent"} = {}

C8_Witness ==
    \E t \in Threads :
        /\ nReq >= 2
        /\ Accepted(t)
        /\ th[t].agent = _agent
        /\ th[t].agent # None
        /\ th[t].made \cap {"session", "model", "agent"} = {}
        /\ th[t].calls = 1

(***************************************************************************)
(* C9.  First writer wins under concurrent initialisation: a session,      *)
(* model or agent handle that has been stored is never overwritten.        *)
(***************************************************************************)
C9_FirstWriterWins ==
    [][ /\ _boto_session # None => _boto_session' = _boto_session
        /\ _bedrock_model # None => _bedrock_model' = _bedrock_model
        /\ _agent # None => _agent' = _agent ]_vars

(***************************************************************************)
(* C10.  Every envelope, on every code path, carries exactly the four      *)
(* fixed headers, and every request produces exactly one envelope.         *)
(***************************************************************************)
C10_FixedHeaders ==
    \A t \in Threads :
        /\ Done(t) => Len(th[t].out) = 1
        /\ ~Done(t) => Len(th[t].out) = 0
        /\ \A i \in 1..Len(th[t].out) :
              /\ DOMAIN th[t].out[i].headers =
                   {"Content-Type", "Access-Control-Allow-Origin",
                    "Access-Control-Allow-Headers",
                    "Access-Control-Allow-Methods"}
              /\ th[t].out[i].headers = FixedHeaders

C10_Witness ==
    \E t \in Threads :
        /\ Done(t)
        /\ Len(th[t].out) = 1
        /\ Status(t) = 400
        /\ Json(t).message = <<"Invalid JSON in request body">>
        /\ th[t].out[1].headers = FixedHeaders

(***************************************************************************)
(* C11.  When one of the two knowledge-base identifiers is empty,          *)
(* search_knowledge_base returns the "Knowledge Base not configured" text  *)
(* for every query and attempts no network access: it creates neither the  *)
(* retrieval client nor the session and issues no retrieve call.           *)
(***************************************************************************)
NotConfiguredText ==
    <<"Knowledge Base not configured. Please set KNOWLEDGE_BASE_ID and KNOWLEDGE_BASE_DATA_SOURCE_ID environment variables.">>

C11_NotConfiguredNoNetwork ==
    (KNOWLEDGE_BASE_ID = "" \/ KNOWLEDGE_BASE_DATA_SOURCE_ID = "") =>
        /\ _bedrock_agent_client = None
        /\ built.client = 0
        /\ \A t \in Threads :
              /\ th[t].pc \notin {"get_client", "new_client", "ret_client",
                                  "retrieve"}
              /\ th[t].ret # "client"
              /\ "client" \notin th[t].made
              /\ th[t].retrieves = 0
              /\ (th[t].pc = "call" /\ th[t].tools > 0) =>
                    th[t].tool = NotConfiguredText

C11_Witness ==
    /\ KNOWLEDGE_BASE_ID # ""
    /\ KNOWLEDGE_BASE_DATA_SOURCE_ID = ""
    /\ \E t \in Threads :
          /\ th[t].pc = "call"
          /\ th[t].tools = 1
          /\ th[t].query = "Expelliarmus"
          /\ th[t].tool = NotConfiguredText
          /\ th[t].retrieves = 0
          /\ _bedrock_agent_client = None

(***************************************************************************)
(* C12.  When the agent call succeeds, the text returned is the one the    *)
(* five rules select, in this order: the text of the first content         *)
(* element; else "" for a first element of type "text"; else a content     *)
(* that is a string; else a message that is a string; else str(result).    *)
(* A result that matches none of the first four rules (a first element of  *)
(* another shape or not a mapping, an empty content list, an empty or      *)
(* absent message) yields str(result), never a failure or an apology.      *)
(***************************************************************************)
\* The message of the result, when it has a non-empty one.
HasMessage(r) == r.hasattr /\ r.m.truthy

\* The first content element of the result, when it is a mapping.
FirstIsMapping(r) ==
    /\ HasMessage(r) /\ r.m.t = "dict" /\ r.hasContent
    /\ r.c.t = "list" /\ r.cLen > 0
    /\ r.e.t = "dict"

\* The text the five rules select.
Selected(r) ==
    IF FirstIsMapping(r) /\ r.e.hasText THEN Str(r.e.text.s)
    ELSE IF FirstIsMapping(r) /\ r.e.hasType /\ r.e.type = "text" THEN <<>>
    ELSE IF HasMessage(r) /\ r.m.t = "dict" /\ r.hasContent /\ r.c.t = "str"
         THEN Str(r.c.s)
    ELSE IF HasMessage(r) /\ r.m.t = "str" THEN Str(r.m.s)
    ELSE Str(r.repr)

C12_FiveRules ==
    \A t \in Threads :
        (Done(t) /\ th[t].returned) =>
            /\ th[t].failure = NoExc
            /\ Status(t) = 200
            /\ Json(t).response = Selected(th[t].result)

(***************************************************************************)
(* C13.  The singletons are constructed in the order session, model,       *)
(* agent: in every state, also after a constructor failed or the tool was  *)
(* invoked, an agent handle exists only if a model handle exists and a     *)
(* model handle only if a session handle exists; the stored model was      *)
(* built from the stored session and the stored agent from the stored      *)
(* model.                                                                  *)
(***************************************************************************)
C13_ConstructionOrder ==
    /\ _agent # None => _bedrock_model # None
    /\ _bedrock_model # None => _boto_session # None
    /\ _bedrock_model # None => _bedrock_model.src = _boto_session.id
    /\ _agent # None => _agent.src = _bedrock_model.id

\* All three exist, after a request in which the model constructor failed
\* and one in which the tool created its client.
C13_Witness ==
    /\ nReq >= 2
    /\ _boto_session # None
    /\ _bedrock_model # None
    /\ _agent # None
    /\ _bedrock_model.src = _boto_session.id
    /\ _agent.src = _bedrock_model.id
    /\ _bedrock_agent_client # None
    /\ \E t \in Threads :
          /\ Done(t)
          /\ th[t].made = {"model", "agent", "client"}

(***************************************************************************)
(* C14.  A request makes a single attempt: it invokes the agent at most    *)
(* once, also when the call fails; and a request that ends in the health   *)
(* 200, a 404 or a chat 400 invokes neither the agent nor its tool and     *)
(* constructs or changes none of the singletons.                           *)
(***************************************************************************)
\* The request was answered by the health handler, with a 404 or a 400.
EndsEarly(t) ==
    /\ Done(t)
    /\ \/ Status(t) = 404
       \/ Status(t) = 400
       \/ Status(t) = 200 /\ "status" \in DOMAIN Json(t)

C14_SingleAttempt ==
    /\ [](\A t \in Threads :
            /\ th[t].calls <= 1
            /\ EndsEarly(t) =>
                  /\ th[t].calls = 0
                  /\ th[t].tools = 0
                  /\ th[t].made = {}
                  /\ th[t].agent = None)
    /\ [][\A t \in Threads :
            (nReq' = nReq + 1 /\ EndsEarly(t)') =>
                /\ _boto_session' = _boto_session
                /\ _bedrock_model' = _bedrock_model
                /\ _agent' = _agent
                /\ built' = built]_vars

\* A request whose agent call failed has made one call and no more, in a
\* process that holds an agent and has served another request.
C14_Witness ==
    \E t \in Threads :
        /\ Done(t)
        /\ th[t].failure = CallFailure
        /\ th[t].calls = 1
        /\ nReq >= 2
        /\ _agent # None

====
